---- MODULE Spec2Model ----
(***************************************************************************)
(* A model of the GoAdmin example program: startServer (src/main.go), the  *)
(* table generator registry (tables.Generators plus the "external"         *)
(* generator), the table builders of package tables, and the requests the  *)
(* running server answers from them.                                       *)
(***************************************************************************)
EXTENDS Integers, Sequences, FiniteSets, TLC

VARIABLES
    pc,        \* position of the main goroutine inside startServer
    registry,  \* the engine's generator list: URL prefix -> generator
    orm,       \* models.orm: "unset" until models.Init, then "open"
    routes,    \* the page routes registered with eng.HTML / eng.HTMLFile
    server,    \* the goroutine running srv.ListenAndServe
    quit,      \* number of signals buffered in the quit channel (capacity 1)
    notified,  \* TRUE once signal.Notify(quit, os.Interrupt) has run
    last,      \* the last response the server produced
    err,       \* the error of the startup chain or of models.Init
    addr,      \* srv.Addr: the port of the http.Server, 0 before it exists
    ctx,       \* seconds of the context handed to srv.Shutdown, 0 before
    active,    \* number of requests accepted and not yet answered
    logged,    \* the messages written with package log
    store      \* the rows of the users table

vars == <<pc, registry, orm, routes, server, quit, notified, last, err, addr,
          ctx, active, logged, store>>

----------------------------------------------------------------------------
(* Bounds of the request inputs.                                           *)

MaxPage == 2
MaxPageSize == 4
MaxAuthorId == 3
MaxActive == 2
MaxUsers == 2
WordBits == 3

Pages == 1..MaxPage
PageSizes == 1..MaxPageSize

----------------------------------------------------------------------------
(* The registry: tables.Generators and the generator added in startServer. *)

\* mutant: the "profile" entry is missing from the map literal
GeneratorsNoProfile ==
    [n \in {"posts", "users", "authors"} |->
        CASE n = "posts"   -> "GetPostsTable"
          [] n = "users"   -> "GetUserTable"
          [] n = "authors" -> "GetAuthorsTable"]

\* var Generators = map[string]table.Generator{...}
Generators ==
    [n \in {"posts", "users", "authors", "profile"} |->
        CASE n = "posts"   -> "GetPostsTable"
          [] n = "users"   -> "GetUserTable"
          [] n = "authors" -> "GetAuthorsTable"
          [] n = "profile" -> "GetProfileTable"]

\* The key and generator of eng.AddGenerator("external", tables.GetExternalTable).
ExternalKey == "external"
ExternalGenerator == "GetExternalTable"

\* Names a request may carry in /admin/info/{name}; two of them are not
\* keys of the registry.
RequestNames == {"posts", "users", "authors", "profile", "external",
                 "orders", ""}

\* A Go map lookup: g, ok := generators[name].
Resolve(reg, name) ==
    IF name \in DOMAIN reg
    THEN [found |-> TRUE, generator |-> reg[name]]
    ELSE [found |-> FALSE, generator |-> "nil"]

----------------------------------------------------------------------------
(* The table model a generator builds: table.NewDefaultTable and the       *)
(* chained configuration calls of the info (list) and form views.          *)

\* table.DefaultPrimaryKeyName, "id" by default
DefaultPrimaryKeyName == "id"

\* types.Join{} of a column that is not joined
NoJoin == [Field |-> "", JoinField |-> "", Table |-> ""]

\* table.DefaultConfig() / table.DefaultConfigWithDriver(driver): the
\* default primary key
DefaultConfigWithDriver(driver) ==
    [Driver |-> driver,
     PrimaryKey |-> [Type |-> "Int", Name |-> DefaultPrimaryKeyName]]

DefaultConfig == DefaultConfigWithDriver("")

\* table.NewDefaultTable(ctx, cfg): empty info, form and detail views
NewDefaultTable(cfg) ==
    [primaryKey |-> cfg.PrimaryKey,
     driver     |-> cfg.Driver,
     info       |-> [fields |-> << >>, table |-> "", getData |-> "db"],
     form       |-> [fields |-> << >>, table |-> ""],
     detail     |-> [table |-> "", getData |-> "db"],
     actions    |-> << >>]

\* info.AddField(head, field, type)
AddField(cols, field, type) ==
    Append(cols, [field |-> field, type |-> type, kind |-> "field",
                  sortable |-> FALSE, filterable |-> FALSE,
                  editable |-> FALSE, hide |-> FALSE, join |-> NoJoin,
                  display |-> ""])

\* info.AddColumn(head, fn) and info.AddColumnButtons(ctx, head, ...): a
\* column that names no data field
AddColumn(cols, kind) ==
    Append(cols, [field |-> "", type |-> "", kind |-> kind,
                  sortable |-> FALSE, filterable |-> FALSE,
                  editable |-> FALSE, hide |-> FALSE, join |-> NoJoin,
                  display |-> ""])

\* The chained modifiers act on the column added last.
FieldSortable(cols)   == [cols EXCEPT ![Len(cols)].sortable = TRUE]
FieldFilterable(cols) == [cols EXCEPT ![Len(cols)].filterable = TRUE]
FieldEditAble(cols)   == [cols EXCEPT ![Len(cols)].editable = TRUE]
FieldHide(cols)       == [cols EXCEPT ![Len(cols)].hide = TRUE]
FieldJoin(cols, j)    == [cols EXCEPT ![Len(cols)].join = j]
FieldDisplay(cols, f) == [cols EXCEPT ![Len(cols)].display = f]

\* formList.AddField(head, field, type, formType)
AddFormField(fs, field, type, formType) ==
    Append(fs, [field |-> field, type |-> type, formType |-> formType,
                notAllowEdit |-> FALSE, notAllowAdd |-> FALSE,
                postFilter |-> "", options |-> << >>, hasDefault |-> FALSE,
                default |-> "", tableFields |-> << >>])

FieldNotAllowEdit(fs) == [fs EXCEPT ![Len(fs)].notAllowEdit = TRUE]
FieldNotAllowAdd(fs)  == [fs EXCEPT ![Len(fs)].notAllowAdd = TRUE]

\* .FieldPostFilterFn(fn) on the form field added last
FieldPostFilterFn(fs, fn) == [fs EXCEPT ![Len(fs)].postFilter = fn]

\* .FieldOptions(types.FieldOptions{...}): the values of the options
FieldOptions(fs, values) == [fs EXCEPT ![Len(fs)].options = values]

\* .FieldDefault(value)
FieldDefault(fs, value) ==
    [fs EXCEPT ![Len(fs)].hasDefault = TRUE, ![Len(fs)].default = value]

\* panel.AddTable(head, field, func(panel) {...}): one field of the form,
\* a table whose columns are the fields the function adds to its own panel
AddTable(fs, field, columns) ==
    [AddFormField(fs, field, "Varchar", "Table")
        EXCEPT ![Len(fs) + 1].tableFields = columns]

\* .SetTabGroups(groups).SetTabHeaders(headers...) of a form
SetTabGroups(form, groups, headers) ==
    [fields |-> form.fields, table |-> form.table, tabGroups |-> groups,
     tabHeaders |-> headers]

\* mutant: the second profile tab of the users form leaves role out
UserTabGroupsNoRole ==
    << << "id", "ip", "name", "gender", "country", "city" >>,
       << "phone", "created_at", "updated_at" >> >>

\* types.NewTabGroups(...).AddGroup(...) of GetUserTable
UserTabGroups ==
    << << "id", "ip", "name", "gender", "country", "city" >>,
       << "phone", "role", "created_at", "updated_at" >> >>

\* types.TabGroups{...} of GetFormContent
FormPageTabGroups ==
    << << "name", "age", "homepage", "email", "birthday", "time",
          "time_range", "date_range", "password", "ip", "certificate",
          "currency", "rate", "reward", "content", "code" >>,
       << "website", "snacks", "fruit", "gender", "cat", "drink",
          "province", "city", "district", "experience" >>,
       << "employee", "setting" >> >>

\* The form panel GetFormContent builds, in the order of its calls.
FormPagePanel ==
    LET Zero3 == << "0", "1", "2", "3" >>
        f1  == AddFormField(<< >>, "name", "Varchar", "Text")
        f2  == AddFormField(f1, "age", "Int", "Number")
        f3  == FieldDefault(AddFormField(f2, "homepage", "Varchar", "Url"),
                            "http://google.com")
        f4  == FieldDefault(AddFormField(f3, "email", "Varchar", "Email"),
                            "xxxx@xxx.com")
        f5  == FieldDefault(AddFormField(f4, "birthday", "Varchar", "Date"),
                            "2010-09-03 18:09:05")
        f6  == FieldDefault(AddFormField(f5, "time", "Varchar", "Datetime"),
                            "2010-09-05")
        f7  == AddFormField(f6, "time_range", "Varchar", "DatetimeRange")
        f8  == AddFormField(f7, "date_range", "Varchar", "DateRange")
        f9  == AddFormField(f8, "password", "Varchar", "Password")
        f10 == AddFormField(f9, "ip", "Varchar", "Ip")
        f11 == AddFormField(f10, "certificate", "Varchar", "Multifile")
        f12 == AddFormField(f11, "currency", "Int", "Currency")
        f13 == AddFormField(f12, "rate", "Int", "Rate")
        f14 == AddFormField(f13, "reward", "Int", "Slider")
        f15 == FieldDefault(AddFormField(f14, "content", "Text", "RichText"),
                            "html")
        f16 == FieldDefault(AddFormField(f15, "code", "Text", "Code"),
                            "package main")
        f17 == FieldOptions(AddFormField(f16, "website", "Tinyint", "Switch"),
                            << "0", "1" >>)
        f18 == FieldOptions(AddFormField(f17, "fruit", "Varchar", "SelectBox"),
                            << "apple", "banana", "watermelon", "pear" >>)
        f19 == FieldOptions(AddFormField(f18, "gender", "Tinyint", "Radio"),
                            << "0", "1" >>)
        f20 == FieldDefault(
                   FieldOptions(AddFormField(f19, "drink", "Tinyint", "Select"),
                                << "beer", "juice", "water", "red bull" >>),
                   "beer")
        f21 == FieldDefault(
                   FieldOptions(AddFormField(f20, "experience", "Tinyint",
                                             "SelectSingle"), Zero3),
                   "beer")
        f22 == FieldOptions(AddFormField(f21, "snacks", "Varchar", "Checkbox"),
                            Zero3)
        f23 == FieldOptions(AddFormField(f22, "cat", "Varchar",
                                         "CheckboxStacked"),
                            << "0", "1", "2" >>)
        f24 == FieldOptions(AddFormField(f23, "province", "Tinyint",
                                         "SelectSingle"), Zero3)
        f25 == FieldOptions(AddFormField(f24, "city", "Tinyint",
                                         "SelectSingle"), Zero3)
        f26 == FieldOptions(AddFormField(f25, "district", "Tinyint",
                                         "SelectSingle"), Zero3)
        f27 == AddFormField(f26, "employee", "Varchar", "Array")
        f28 == AddTable(f27, "setting",
                        AddFormField(AddFormField(<< >>, "key", "Varchar",
                                                  "Text"),
                                     "value", "Varchar", "Text"))
    IN  SetTabGroups([fields |-> f28, table |-> ""], FormPageTabGroups,
                     << "input", "select", "multi" >>)

\* An action of package action: its kind, its id (the route of its
\* callback), the handler given to it and, for an iframe, the page shown:
\* the segments of the path of IframeData.Src, which the "/" separate.
Action(kind, id, handler, src) ==
    [kind |-> kind, id |-> id, handler |-> handler, src |-> src]

\* The kinds of action that carry a callback route.
CallbackKinds == {"Ajax", "PopUp", "PopUpWithIframe", "OnChooseAjax"}

\* mutant: the ajax button reuses the route of the popup button
UserActionsDupId ==
    << Action("PopUp", "/see/more/example", "seeMore", << >>),
       Action("PopUp", "/admin/popup", "popup", << >>),
       Action("Ajax", "/admin/popup", "ajax", << >>) >>

\* mutant: the iframe button shows the form of a table orders
UserActionsIframeOrders ==
    << Action("PopUpWithIframe", "/admin/iframe", "iframe",
              << "admin", "info", "orders", "new" >>) >>

\* The actions GetUserTable declares, in the order of the calls.
UserActions ==
    << Action("PopUp", "/see/more/example", "seeMore", << >>),
       Action("Jump", "https://google.com", "", << >>),
       Action("Ajax", "/admin/audit", "audit", << >>),
       Action("PopUp", "/admin/preview", "preview", << >>),
       Action("Jump", "https://google.com", "", << >>),
       Action("PopUp", "/admin/popup", "popup", << >>),
       Action("PopUpWithIframe", "/admin/iframe", "iframe",
              << "admin", "info", "profile", "new" >>),
       Action("Ajax", "/admin/ajax", "ajax", << >>),
       Action("FieldFilter", "gender", "", << >>),
       Action("OnChooseAjax", "/choose/country", "chooseCountry", << >>) >>

\* The button GetAuthorsTable declares.
AuthorsActions ==
    << Action("PopUpWithIframe", "/authors/list", "iframe",
              << "admin", "info", "posts" >>) >>

\* The button of the demo table page, GetTableContent.
TablePageActions ==
    << Action("Ajax", "ajax_id", "tableAjax", << >>) >>

\* The link the display function of the author_id column of GetPostsTable
\* renders: SetURL("/admin/info/authors/detail?__goadmin_detail_pk=" +
\* value.Value), as the segments of its path and its query.
AuthorLink(value) ==
    [path  |-> << "admin", "info", "authors", "detail" >>,
     query |-> [__goadmin_detail_pk |-> value]]

\* The join both hidden posts columns declare.
AuthorsJoin == [Field |-> "author_id", JoinField |-> "id", Table |-> "authors"]

\* mutant: the joined columns are added under the name of the display column
GetPostsTableDupName ==
    LET c1 == FieldSortable(AddField(<< >>, "id", "Int"))
        c2 == AddField(c1, "title", "Varchar")
        c3 == FieldDisplay(AddField(c2, "author_id", "Int"), "authorLink")
        c4 == FieldDisplay(AddField(c3, "name", "Varchar"), "authorName")
        c5 == FieldHide(FieldJoin(AddField(c4, "name", "Varchar"),
                                  AuthorsJoin))
        c6 == FieldHide(FieldJoin(AddField(c5, "last_name", "Varchar"),
                                  AuthorsJoin))
        c7 == AddField(c6, "description", "Varchar")
        t  == NewDefaultTable(DefaultConfigWithDriver("sqlite"))
    IN  [t EXCEPT !.info = [fields |-> c7, table |-> "posts",
                            getData |-> "db"],
                  !.form = [fields |-> AddFormField(<< >>, "id", "Int",
                                                    "Default"),
                            table |-> "posts"]]

\* mutant: a joined column is made editable in the list
GetPostsTableJoinEditable ==
    LET c1 == FieldSortable(AddField(<< >>, "id", "Int"))
        c2 == AddField(c1, "title", "Varchar")
        c3 == FieldDisplay(AddField(c2, "author_id", "Int"), "authorLink")
        c4 == FieldDisplay(AddField(c3, "name", "Varchar"), "authorName")
        c5 == FieldEditAble(FieldJoin(AddField(c4, "first_name", "Varchar"),
                                      AuthorsJoin))
        c6 == FieldHide(FieldJoin(AddField(c5, "last_name", "Varchar"),
                                  AuthorsJoin))
        t  == NewDefaultTable(DefaultConfigWithDriver("sqlite"))
    IN  [t EXCEPT !.info = [fields |-> c6, table |-> "posts",
                            getData |-> "db"],
                  !.form = [fields |-> AddFormField(<< >>, "id", "Int",
                                                    "Default"),
                            table |-> "posts"]]

\* func GetPostsTable(ctx *context.Context) (postsTable table.Table)
GetPostsTable ==
    LET c1 == FieldSortable(AddField(<< >>, "id", "Int"))
        c2 == AddField(c1, "title", "Varchar")
        c3 == FieldDisplay(AddField(c2, "author_id", "Int"), "authorLink")
        c4 == FieldDisplay(AddField(c3, "name", "Varchar"), "authorName")
        c5 == FieldHide(FieldJoin(AddField(c4, "first_name", "Varchar"),
                                  AuthorsJoin))
        c6 == FieldHide(FieldJoin(AddField(c5, "last_name", "Varchar"),
                                  AuthorsJoin))
        c7 == AddField(c6, "description", "Varchar")
        c8 == FieldEditAble(AddField(c7, "content", "Varchar"))
        c9 == AddField(c8, "date", "Varchar")
        f1 == FieldNotAllowAdd(FieldNotAllowEdit(
                  AddFormField(<< >>, "id", "Int", "Default")))
        f2 == AddFormField(f1, "title", "Varchar", "Text")
        f3 == AddFormField(f2, "description", "Varchar", "Text")
        f4 == AddFormField(f3, "content", "Varchar", "RichText")
        f5 == AddFormField(f4, "date", "Varchar", "Datetime")
        t  == NewDefaultTable(DefaultConfigWithDriver("sqlite"))
    IN  [t EXCEPT !.info = [fields |-> c9, table |-> "posts",
                            getData |-> "db"],
                  !.form = [fields |-> f5, table |-> "posts"]]

\* func GetUserTable(ctx *context.Context) (userTable table.Table)
GetUserTable ==
    LET c1  == FieldSortable(AddField(<< >>, "id", "Int"))
        c2  == FieldFilterable(FieldEditAble(AddField(c1, "name", "Varchar")))
        c3  == FieldFilterable(FieldEditAble(FieldDisplay(
                   AddField(c2, "gender", "Tinyint"), "genderName")))
        c4  == AddColumn(c3, "column")
        c5  == AddColumn(c4, "buttons")
        c6  == FieldFilterable(AddField(c5, "phone", "Varchar"))
        c7  == FieldFilterable(AddField(c6, "city", "Varchar"))
        c8  == FieldDisplay(AddField(c7, "avatar", "Varchar"), "avatarImage")
        c9  == FieldFilterable(AddField(c8, "created_at", "Timestamp"))
        c10 == FieldEditAble(AddField(c9, "updated_at", "Timestamp"))
        f1  == FieldNotAllowAdd(FieldNotAllowEdit(
                   AddFormField(<< >>, "id", "Int", "Default")))
        f2  == AddFormField(f1, "ip", "Varchar", "Text")
        f3  == AddFormField(f2, "name", "Varchar", "Text")
        f4  == FieldDefault(
                   FieldOptions(AddFormField(f3, "gender", "Tinyint", "Radio"),
                                << "0", "1" >>),
                   "0")
        f5  == AddFormField(f4, "phone", "Varchar", "Text")
        f6  == FieldDefault(
                   FieldOptions(AddFormField(f5, "country", "Tinyint",
                                             "SelectSingle"),
                                << "0", "1", "2", "3" >>),
                   "0")
        f7  == AddFormField(f6, "city", "Varchar", "SelectSingle")
        f8  == FieldPostFilterFn(AddFormField(f7, "role", "Varchar", "Text"),
                                 "rolePostFilter")
        f9  == FieldNotAllowAdd(
                   AddFormField(f8, "updated_at", "Timestamp", "Default"))
        f10 == FieldNotAllowAdd(
                   AddFormField(f9, "created_at", "Timestamp", "Default"))
        t   == NewDefaultTable(
                   [Driver |-> "sqlite",
                    PrimaryKey |-> [Type |-> "Int",
                                    Name |-> DefaultPrimaryKeyName]])
    IN  [t EXCEPT !.info = [fields |-> c10, table |-> "users",
                            getData |-> "db"],
                  !.form = SetTabGroups([fields |-> f10, table |-> "users"],
                                        UserTabGroups,
                                        << "profile1", "profile2" >>),
                  !.actions = UserActions]

\* func GetAuthorsTable(ctx *context.Context) (authorsTable table.Table)
GetAuthorsTable ==
    LET c1 == FieldSortable(AddField(<< >>, "id", "Int"))
        c2 == FieldHide(AddField(c1, "first_name", "Varchar"))
        c3 == FieldHide(AddField(c2, "last_name", "Varchar"))
        c4 == FieldDisplay(AddField(c3, "name", "Varchar"), "fullName")
        c5 == AddField(c4, "email", "Varchar")
        c6 == AddField(c5, "birthdate", "Date")
        c7 == AddField(c6, "added", "Timestamp")
        f1 == FieldNotAllowAdd(FieldNotAllowEdit(
                  AddFormField(<< >>, "id", "Int", "Default")))
        f2 == AddFormField(f1, "first_name", "Varchar", "Text")
        f3 == AddFormField(f2, "last_name", "Varchar", "Text")
        f4 == AddFormField(f3, "email", "Varchar", "Text")
        f5 == AddFormField(f4, "birthdate", "Date", "Text")
        f6 == AddFormField(f5, "added", "Timestamp", "Text")
        t  == NewDefaultTable(DefaultConfigWithDriver("sqlite"))
    IN  [t EXCEPT !.info = [fields |-> c7, table |-> "authors",
                            getData |-> "db"],
                  !.form = [fields |-> f6, table |-> "authors"],
                  !.actions = AuthorsActions]

\* mutant: the list view starts at uuid, as the profile form does
GetProfileTableNoId ==
    LET c2 == AddField(<< >>, "uuid", "Varchar")
        c3 == AddField(c2, "pass", "Tinyint")
        t  == NewDefaultTable(DefaultConfigWithDriver("sqlite"))
    IN  [t EXCEPT !.info = [fields |-> c3, table |-> "profile",
                            getData |-> "db"],
                  !.form = [fields |-> AddFormField(<< >>, "uuid", "Varchar",
                                                    "Text"),
                            table |-> "profile"]]

\* func GetProfileTable(ctx *context.Context) table.Table
GetProfileTable ==
    LET c1 == FieldFilterable(AddField(<< >>, "id", "Int"))
        c2 == AddField(c1, "uuid", "Varchar")
        c3 == AddField(c2, "pass", "Tinyint")
        c4 == AddField(c3, "photos", "Varchar")
        c5 == FieldDisplay(AddField(c4, "finish_state", "Tinyint"),
                           "stepName")
        c6 == AddField(c5, "finish_progress", "Int")
        c7 == FieldDisplay(AddField(c6, "resume", "Varchar"), "baseName")
        c8 == AddField(c7, "resume_size", "Int")
        f1 == AddFormField(<< >>, "uuid", "Varchar", "Text")
        f2 == AddFormField(f1, "photos", "Varchar", "Text")
        f3 == AddFormField(f2, "resume", "Varchar", "Text")
        f4 == AddFormField(f3, "resume_size", "Int", "Number")
        f5 == AddFormField(f4, "finish_state", "Tinyint", "Number")
        f6 == AddFormField(f5, "finish_progress", "Int", "Number")
        f7 == AddFormField(f6, "pass", "Tinyint", "Number")
        t  == NewDefaultTable(DefaultConfigWithDriver("sqlite"))
    IN  [t EXCEPT !.info = [fields |-> c8, table |-> "profile",
                            getData |-> "db"],
                  !.form = [fields |-> f7, table |-> "profile"]]

\* mutant: the detail view of the external table names another table
GetExternalTableDetailPosts ==
    LET c1 == FieldSortable(AddField(<< >>, "id", "Int"))
        c2 == AddField(c1, "title", "Varchar")
        f1 == FieldNotAllowAdd(FieldNotAllowEdit(
                  AddFormField(<< >>, "id", "Int", "Default")))
        f2 == AddFormField(f1, "title", "Varchar", "Text")
        t  == NewDefaultTable(DefaultConfig)
    IN  [t EXCEPT !.info = [fields |-> c2, table |-> "external",
                            getData |-> "externalList"],
                  !.form = [fields |-> f2, table |-> "external"],
                  !.detail = [table |-> "posts",
                              getData |-> "externalDetail"]]

\* func GetExternalTable(ctx *context.Context) (externalTable table.Table)
GetExternalTable ==
    LET c1 == FieldSortable(AddField(<< >>, "id", "Int"))
        c2 == AddField(c1, "title", "Varchar")
        f1 == FieldNotAllowAdd(FieldNotAllowEdit(
                  AddFormField(<< >>, "id", "Int", "Default")))
        f2 == AddFormField(f1, "title", "Varchar", "Text")
        t  == NewDefaultTable(DefaultConfig)
    IN  [t EXCEPT !.info = [fields |-> c2, table |-> "external",
                            getData |-> "externalList"],
                  !.form = [fields |-> f2, table |-> "external"],
                  !.detail = [table |-> "external",
                              getData |-> "externalDetail"]]

\* Calling a registered generator: generator(ctx).
Build(generator) ==
    CASE generator = "GetPostsTable"    -> GetPostsTable
      [] generator = "GetUserTable"     -> GetUserTable
      [] generator = "GetAuthorsTable"  -> GetAuthorsTable
      [] generator = "GetProfileTable"  -> GetProfileTable
      [] generator = "GetExternalTable" -> GetExternalTable

----------------------------------------------------------------------------
(* The custom data source of the external table.                           *)

\* The rows both data functions of GetExternalTable return.
ExternalRows ==
    << [id |-> 10, title |-> "title"],  [id |-> 11, title |-> "title2"],
       [id |-> 12, title |-> "title3"], [id |-> 13, title |-> "title4"] >>

\* The count the list function returns with them.
ExternalTotal == 10

\* mutant: the list function counts its calls in what the previous
\* response left behind
ExternalGetDataCounting(param) ==
    [rows |-> ExternalRows,
     total |-> IF last.kind = "info" /\ last.name = "external"
               THEN ExternalTotal + 1 ELSE ExternalTotal]

\* info.SetGetDataFn(func(param parameter.Parameters) ([]map[string]interface{}, int))
ExternalGetData(param) ==
    [rows |-> ExternalRows, total |-> ExternalTotal]

\* detail.SetGetDataFn(func(param parameter.Parameters) ([]map[string]interface{}, int))
ExternalGetDetail(param) ==
    [rows |-> << ExternalRows[1] >>, total |-> 1]

\* The data a view's source yields for a request; rows of a database table
\* come from the query layer and are not part of this model.
GetData(source, param) ==
    CASE source = "externalList"   -> ExternalGetData(param)
      [] source = "externalDetail" -> ExternalGetDetail(param)
      [] OTHER                     -> [rows |-> << >>, total |-> 0]

----------------------------------------------------------------------------
(* Rows and the display functions that read them.                          *)

\* A value of type interface{} in a row: a string, an int or nil.
Str(s) == [t |-> "string", s |-> s]
IntVal == [t |-> "int", s |-> ""]
NilVal == [t |-> "nil", s |-> ""]

\* The rows of the authors table the model joins against; author ids above
\* 2 have no row.
Authors ==
    [id \in {1, 2} |->
        IF id = 1 THEN [first_name |-> "Ann", last_name |-> "Lee"]
                  ELSE [first_name |-> "Bo",  last_name |-> "Kim"]]

AuthorIds == 1..MaxAuthorId

\* How a joined column of a post without author may arrive in the row.
NullReps == {"absent", "nil", "empty"}

\* The row key of a joined column: {table}_goadmin_join_{field}.
JoinKey(table, field) == table \o "_goadmin_join_" \o field

JoinedColumns(fields) ==
    {i \in 1..Len(fields) : fields[i].join.Table /= ""}

\* The row of a post as its display functions receive it: the post's own
\* columns and one key for each joined column.
PostRow(fields, authorId, rep) ==
    LET joined == JoinedColumns(fields)
        key(i) == JoinKey(fields[i].join.Table, fields[i].field)
        col(k) == CHOOSE i \in joined : key(i) = k
        keys   == IF authorId \in DOMAIN Authors \/ rep /= "absent"
                  THEN {key(i) : i \in joined} ELSE {}
    IN  [k \in {"id", "author_id"} \cup keys |->
            IF k \in {"id", "author_id"} THEN IntVal
            ELSE IF authorId \in DOMAIN Authors
                 THEN Str(Authors[authorId][fields[col(k)].field])
                 ELSE IF rep = "nil" THEN NilVal ELSE Str("")]

\* A row of the authors table; a name column may be NULL.
AuthorRow(authorId, rep) ==
    [k \in {"id", "first_name", "last_name"} |->
        IF k = "id" THEN IntVal
        ELSE IF rep = "nil" THEN NilVal
        ELSE IF rep = "empty" \/ authorId \notin DOMAIN Authors THEN Str("")
        ELSE Str(Authors[authorId][k])]

\* v, _ := row[key].(string): the empty string unless the key holds a string
AssertString(row, key) ==
    IF key \in DOMAIN row /\ row[key].t = "string" THEN row[key].s ELSE ""

\* row[key].(string) without the ok result panics unless the key holds a
\* string
AssertStringPanics(row, key) ==
    ~(key \in DOMAIN row /\ row[key].t = "string")

\* The keys the author-name display function of the posts table reads.
FirstNameKey == "authors_goadmin_join_first_name"
LastNameKey  == "authors_goadmin_join_last_name"

\* mutant: the display function reads the keys {table}_joined_{field}
AuthorNameDisplayJoined(row) ==
    [value |-> AssertString(row, "authors_joined_first_name") \o " " \o
               AssertString(row, "authors_joined_last_name"),
     panic |-> FALSE]

\* mutant: the type assertions are written without the ok result
AuthorNameDisplayPanics(row) ==
    [value |-> AssertString(row, FirstNameKey) \o " " \o
               AssertString(row, LastNameKey),
     panic |-> AssertStringPanics(row, FirstNameKey)
               \/ AssertStringPanics(row, LastNameKey)]

\* posts: info.AddField("name").FieldDisplay(func(value types.FieldModel))
AuthorNameDisplay(row) ==
    [value |-> AssertString(row, FirstNameKey) \o " " \o
               AssertString(row, LastNameKey),
     panic |-> FALSE]

\* authors: info.AddField("name").FieldDisplay(func(value types.FieldModel))
FullNameDisplay(row) ==
    [value |-> AssertString(row, "first_name") \o " " \o
               AssertString(row, "last_name"),
     panic |-> FALSE]

----------------------------------------------------------------------------
(* models.Statistics, FirstStatics and the template methods.               *)

\* The uint and int of the model are WordBits wide.
UintMax == 2^WordBits - 1
IntMax  == 2^(WordBits - 1) - 1
Uints   == 0..UintMax

\* new(Statistics): every field has its zero value
ZeroStatistics ==
    [ID |-> 0, CPU |-> 0, Likes |-> 0, Sales |-> 0, NewMembers |-> 0]

\* A record of the statistics table; the four counters differ, so that
\* reading the wrong one shows.
StatRow(id, v) ==
    [ID |-> id, CPU |-> v, Likes |-> (v + 1) % (UintMax + 1),
     Sales |-> (v + 2) % (UintMax + 1),
     NewMembers |-> (v + 3) % (UintMax + 1)]

\* The contents the statistics table may have, in primary key order:
\* empty, one record or two different ones.
StatTables ==
    {<< >>} \cup {<< StatRow(1, v) >> : v \in Uints}
            \cup {<< StatRow(1, v), StatRow(2, UintMax - v) >> :
                      v \in {0, UintMax}}

\* mutant: the last record is returned instead of the first
LastStatics(table, failed) ==
    IF failed \/ table = << >> THEN ZeroStatistics ELSE table[Len(table)]

\* func FirstStatics() *Statistics: s := new(Statistics); orm.First(s);
\* return s. First fills s with the first record in primary key order and
\* leaves it untouched when there is none or the query fails.
FirstStatics(table, failed) ==
    IF failed \/ table = << >> THEN ZeroStatistics ELSE table[1]

\* int(v) of a uint v: the same bits read as a signed integer
ToInt(v) == IF v > IntMax THEN v - (UintMax + 1) ELSE v

Digit(d) ==
    CASE d = 0 -> "0" [] d = 1 -> "1" [] d = 2 -> "2" [] d = 3 -> "3"
      [] d = 4 -> "4" [] d = 5 -> "5" [] d = 6 -> "6" [] d = 7 -> "7"
      [] d = 8 -> "8" [] d = 9 -> "9"

\* The decimal digits of n >= 0.
RECURSIVE Digits(_)
Digits(n) == IF n < 10 THEN Digit(n) ELSE Digits(n \div 10) \o Digit(n % 10)

\* strconv.Itoa
Itoa(n) == IF n < 0 THEN "-" \o Digits(-n) ELSE Digits(n)

\* func (s *Statistics) CPUTmpl() template.HTML
CPUTmpl(s) == Itoa(ToInt(s.CPU))

\* func (s *Statistics) LikesTmpl() template.HTML
LikesTmpl(s) == Itoa(ToInt(s.Likes))

\* func (s *Statistics) SalesTmpl() template.HTML
SalesTmpl(s) == Itoa(ToInt(s.Sales))

\* func (s *Statistics) NewMembersTmpl() template.HTML
NewMembersTmpl(s) == Itoa(ToInt(s.NewMembers))

\* The numbers of the four info boxes of DashboardPage.
InfoBoxes(s) ==
    [cpu |-> CPUTmpl(s), likes |-> LikesTmpl(s), sales |-> SalesTmpl(s),
     newMembers |-> NewMembersTmpl(s)]

NoBoxes == [cpu |-> "", likes |-> "", sales |-> "", newMembers |-> ""]

\* The blocks DashboardPage builds; a row or a column is the sequence of
\* the blocks put into it, in the order of the concatenation.
InfoBoxRow    == << "infobox cpu", "infobox likes", "infobox sales",
                    "infobox new members" >>
TableCol      == InfoBoxRow \o << "orders table" >>
NewsCol       == << "product list" >>
ReportRow     == << "line chart", "progress groups", "descriptions" >>
SmallBoxRow   == << "smallbox", "smallbox", "smallbox", "smallbox" >>
OrdersRow     == TableCol \o NewsCol
BrowserRow    == << "tabs", "popup button", "pie chart", "popup" >>

\* Content: row3 + row2 + row5 + row4
DashboardContent == << SmallBoxRow, ReportRow, OrdersRow, BrowserRow >>

----------------------------------------------------------------------------
(* The users form: the post filter of the role field.                      *)

\* The names and roles a form submission may carry.
SubmittedNames == {"bo"}
SubmittedRoles == {"", "admin", "guest"}

\* mutant: the filter hands the submitted value on
RolePostFilterKeeps(value) == value

\* FieldPostFilterFn(func(value types.PostFieldModel) interface{}) of role
RolePostFilter(value) == ""

\* The value of a form field after its post filter, if it has one.
PostFilter(field, value) ==
    IF field.postFilter = "rolePostFilter" THEN RolePostFilter(value)
                                           ELSE value

\* The value a column holds after a submission: a filtered value that is
\* the empty string is not saved.
Saved(old, filtered) == IF filtered = "" THEN old ELSE filtered

\* The form field of a table with the given name.
FormField(table, name) ==
    LET i == CHOOSE i \in 1..Len(table.form.fields) :
                 table.form.fields[i].field = name
    IN  table.form.fields[i]

\* The row a users form submission leaves behind.
SubmittedRow(table, old, name, role) ==
    [name |-> Saved(old.name, PostFilter(FormField(table, "name"), name)),
     role |-> Saved(old.role, PostFilter(FormField(table, "role"), role))]

\* A row that does not exist yet: the columns hold their defaults.
BlankRow == [name |-> "", role |-> ""]

\* The values the country field may send to its callback: its four options,
\* the empty string and two values that are no option.
CountryValues == {"", "0", "1", "2", "3", "4", "china"}

\* selection.Options{{Text: ..., ID: id}, ...}: the ids, in order
Options(ids) == [i \in 1..Len(ids) |-> [ID |-> ids[i]]]

ChinaCities ==
    Options(<< "beijing", "shangHai", "guangZhou", "shenZhen" >>)

\* mutant: the switch has no default case and data stays empty
ChooseCountryNoDefault(country) ==
    [success |-> TRUE, msg |-> "ok",
     data |-> CASE country = "0" -> ChinaCities
                [] country = "1" ->
                     Options(<< "los angeles", "washington, dc", "new york",
                                "las vegas" >>)
                [] country = "2" ->
                     Options(<< "london", "cambridge", "manchester",
                                "liverpool" >>)
                [] country = "3" -> Options(<< "vancouver", "toronto" >>)
                [] OTHER -> << >>]

\* The callback of FieldOnChooseAjax("city", "/choose/country", ...):
\* country := ctx.FormValue("value"); switch country {...};
\* return true, "ok", data
ChooseCountry(country) ==
    [success |-> TRUE, msg |-> "ok",
     data |-> CASE country = "0" -> ChinaCities
                [] country = "1" ->
                     Options(<< "los angeles", "washington, dc", "new york",
                                "las vegas" >>)
                [] country = "2" ->
                     Options(<< "london", "cambridge", "manchester",
                                "liverpool" >>)
                [] country = "3" -> Options(<< "vancouver", "toronto" >>)
                [] OTHER ->
                     Options(<< "beijing", "shangHai", "guangZhou",
                                "shenZhen" >>)]

----------------------------------------------------------------------------
(* The pages and the server of startServer.                                *)

\* srv := &http.Server{Addr: ":9033", ...}
ServerPort == 9033

\* context.WithTimeout(context.Background(), 5*time.Second)
ShutdownSeconds == 5

Route(method, path, handler) ==
    [method |-> method, path |-> path, handler |-> handler]

\* mutant: the table page is registered with the handler of the form page
PageRoutesFormTwice ==
    { Route("GET", "/uploads", "Static"),
      Route("GET", "/admin", "DashboardPage"),
      Route("GET", "/admin/form", "GetFormContent"),
      Route("GET", "/admin/table", "GetFormContent"),
      Route("GET", "/admin/hello", "hello.tmpl") }

\* r.Static, eng.HTML("GET", ...) x 3 and eng.HTMLFile("GET", ...)
PageRoutes ==
    { Route("GET", "/uploads", "Static"),
      Route("GET", "/admin", "DashboardPage"),
      Route("GET", "/admin/form", "GetFormContent"),
      Route("GET", "/admin/table", "GetTableContent"),
      Route("GET", "/admin/hello", "hello.tmpl") }

\* The paths a page request may carry; one is not registered.
RequestPaths == {"/admin", "/admin/form", "/admin/table", "/admin/hello",
                 "/admin/none"}

\* The router's lookup of a GET request.
ResolvePage(rs, path) ==
    LET hit == {r \in rs : r.method = "GET" /\ r.path = path}
    IN  IF hit = {} THEN [found |-> FALSE, generator |-> "nil"]
        ELSE [found |-> TRUE, generator |-> (CHOOSE r \in hit : TRUE).handler]

TableGenerators ==
    {"GetPostsTable", "GetUserTable", "GetAuthorsTable", "GetProfileTable",
     "GetExternalTable"}

\* The descriptor a response was rendered from: the generator is called
\* anew for every request. A response without a table carries an empty one.
TableOf(r) ==
    IF r.found /\ r.generator \in TableGenerators
    THEN Build(r.generator)
    ELSE NewDefaultTable(DefaultConfig)

\* The actions a response carries: those of its table, or the button of
\* the table page.
ActionsOf(r) ==
    IF r.found /\ r.generator = "GetTableContent" THEN TablePageActions
                                                  ELSE TableOf(r).actions

\* A response of the server.
Response(kind, name, r, param, data, row, shown) ==
    [kind |-> kind, name |-> name, found |-> r.found,
     generator |-> r.generator, page |-> param.page,
     pageSize |-> param.pageSize, rows |-> data.rows, total |-> data.total,
     authorId |-> param.authorId, row |-> row, display |-> shown.value,
     panic |-> shown.panic, table |-> TableOf(r), actions |-> ActionsOf(r),
     stats |-> ZeroStatistics, boxes |-> NoBoxes, content |-> << >>,
     value |-> "", success |-> FALSE]

NoParam == [page |-> 0, pageSize |-> 0, authorId |-> 0]
NoData  == [rows |-> << >>, total |-> 0]
NoRow   == << >>
NoShown == [value |-> "", panic |-> FALSE]

NoResponse ==
    Response("none", "", [found |-> FALSE, generator |-> "nil"], NoParam,
             NoData, NoRow, NoShown)

\* The process has ended: startServer returned, log.Fatal or a panic.
Ended == pc \in {"exited", "fatal", "panicked"}

\* A request that was accepted can be answered.
Serving == active > 0 /\ server \in {"listening", "closing"} /\ ~Ended

----------------------------------------------------------------------------
(* startServer, one action per statement.                                  *)

Init ==
    /\ pc = "AddConfigFromYAML"
    /\ registry = << >>
    /\ orm = "unset"
    /\ routes = {}
    /\ server = "none"
    /\ quit = 0
    /\ notified = FALSE
    /\ last = NoResponse
    /\ err = "nil"
    /\ addr = 0
    /\ ctx = 0
    /\ active = 0
    /\ logged = {}
    /\ store = << [name |-> "ann", role |-> "admin"] >>

\* eng.AddConfigFromYAML("./config.yml")
AddConfigFromYAML ==
    /\ pc = "AddConfigFromYAML"
    /\ pc' = "AddGenerators"
    /\ UNCHANGED <<registry, orm, routes, server, quit, notified, last, err,
                   addr, ctx, active, logged, store>>

\* .AddGenerators(tables.Generators)
AddGenerators ==
    /\ pc = "AddGenerators"
    /\ registry' = [n \in DOMAIN registry \cup DOMAIN Generators |->
                      IF n \in DOMAIN registry THEN registry[n]
                                               ELSE Generators[n]]
    /\ pc' = "AddGenerator"
    /\ UNCHANGED <<orm, routes, server, quit, notified, last, err, addr, ctx,
                   active, logged, store>>

\* .AddGenerator("external", tables.GetExternalTable)
AddGenerator ==
    /\ pc = "AddGenerator"
    /\ registry' = [n \in DOMAIN registry \cup {ExternalKey} |->
                      IF n = ExternalKey THEN ExternalGenerator
                                         ELSE registry[n]]
    /\ pc' = "Use"
    /\ UNCHANGED <<orm, routes, server, quit, notified, last, err, addr, ctx,
                   active, logged, store>>

\* mutant: the error of the chain is dropped
UseIgnoresError ==
    /\ pc = "Use"
    /\ \E e \in BOOLEAN : err' = IF e THEN "use" ELSE "nil"
    /\ pc' = "ModelsInit"
    /\ UNCHANGED <<registry, orm, routes, server, quit, notified, last, addr,
                   ctx, active, logged, store>>

\* .Use(r); err != nil => panic(err). The error is that of the whole chain:
\* the configuration, the generators or the mounting on the router.
Use ==
    /\ pc = "Use"
    /\ \E e \in BOOLEAN :
          /\ err' = IF e THEN "use" ELSE "nil"
          /\ pc' = IF e THEN "panicked" ELSE "ModelsInit"
    /\ UNCHANGED <<registry, orm, routes, server, quit, notified, last, addr,
                   ctx, active, logged, store>>

\* mutant: the call of models.Init is left out of startServer
ModelsInitLeftOut ==
    /\ pc = "ModelsInit"
    /\ pc' = "Routes"
    /\ UNCHANGED <<registry, orm, routes, server, quit, notified, last, err,
                   addr, ctx, active, logged, store>>

\* models.Init(eng.SqliteConnection()): orm, err = gorm.Open(...), panic
\* when err != nil
ModelsInit ==
    /\ pc = "ModelsInit"
    /\ \E e \in BOOLEAN :
          IF e THEN /\ pc' = "panicked"
                    /\ err' = "orm"
                    /\ orm' = orm
               ELSE /\ pc' = "Routes"
                    /\ err' = "nil"
                    /\ orm' = "open"
    /\ UNCHANGED <<registry, routes, server, quit, notified, last, addr, ctx,
                   active, logged, store>>

\* r.Static, eng.HTML x 3, eng.HTMLFile
Routes ==
    /\ pc = "Routes"
    /\ routes' = routes \cup PageRoutes
    /\ pc' = "Spawn"
    /\ UNCHANGED <<registry, orm, server, quit, notified, last, err, addr,
                   ctx, active, logged, store>>

\* mutant: the server goroutine is started before the generators are added
SpawnServerEarly ==
    /\ pc = "AddGenerators"
    /\ server = "none"
    /\ server' = "starting"
    /\ addr' = ServerPort
    /\ UNCHANGED <<pc, registry, orm, routes, quit, notified, last, err, ctx,
                   active, logged, store>>

\* srv := &http.Server{...}; go func() { srv.ListenAndServe() }()
SpawnServer ==
    /\ pc = "Spawn"
    /\ server' = "starting"
    /\ addr' = ServerPort
    /\ pc' = "Notify"
    /\ UNCHANGED <<registry, orm, routes, quit, notified, last, err, ctx,
                   active, logged, store>>

\* mutant: the goroutine ends the process when ListenAndServe fails
ListenAndServeFatal ==
    /\ server = "starting"
    /\ ~Ended
    /\ \E e \in BOOLEAN :
          /\ server' = IF e THEN "failed" ELSE "listening"
          /\ logged' = IF e THEN logged \cup {"listen"} ELSE logged
          /\ pc' = IF e THEN "fatal" ELSE pc
    /\ UNCHANGED <<registry, orm, routes, quit, notified, last, err, addr,
                   ctx, active, store>>

\* The goroutine: ListenAndServe binds srv.Addr, or returns an error that
\* is only logged.
ListenAndServe ==
    /\ server = "starting"
    /\ ~Ended
    /\ \E e \in BOOLEAN :
          /\ server' = IF e THEN "failed" ELSE "listening"
          /\ logged' = IF e THEN logged \cup {"listen"} ELSE logged
    /\ UNCHANGED <<pc, registry, orm, routes, quit, notified, last, err, addr,
                   ctx, active, store>>

\* The goroutine after srv.Shutdown: ListenAndServe returns ErrServerClosed,
\* which is logged, unless the process ends first.
ListenReturns ==
    /\ server = "closing"
    /\ ~Ended
    /\ "listen" \notin logged
    /\ logged' = logged \cup {"listen"}
    /\ UNCHANGED <<pc, registry, orm, routes, server, quit, notified, last,
                   err, addr, ctx, active, store>>

\* quit := make(chan os.Signal, 1); signal.Notify(quit, os.Interrupt)
Notify ==
    /\ pc = "Notify"
    /\ notified' = TRUE
    /\ pc' = "WaitQuit"
    /\ UNCHANGED <<registry, orm, routes, server, quit, last, err, addr, ctx,
                   active, logged, store>>

\* The operating system delivers os.Interrupt; a full channel drops it.
Interrupt ==
    /\ notified
    /\ pc \in {"WaitQuit", "Shutdown"}
    /\ quit = 0
    /\ quit' = 1
    /\ UNCHANGED <<pc, registry, orm, routes, server, notified, last, err,
                   addr, ctx, active, logged, store>>

\* <-quit
WaitQuit ==
    /\ pc = "WaitQuit"
    /\ quit > 0
    /\ quit' = quit - 1
    /\ pc' = "Shutdown"
    /\ UNCHANGED <<registry, orm, routes, server, notified, last, err, addr,
                   ctx, active, logged, store>>

\* ctx, cancel := context.WithTimeout(..., 5*time.Second);
\* srv.Shutdown(ctx) begins: the listeners are closed, no connection is
\* accepted any more.
Shutdown ==
    /\ pc = "Shutdown"
    /\ ctx' = ShutdownSeconds
    /\ server' = IF server \in {"starting", "listening"} THEN "closing"
                                                          ELSE server
    /\ pc' = "ShutdownWait"
    /\ UNCHANGED <<registry, orm, routes, quit, notified, last, err, addr,
                   active, logged, store>>

\* srv.Shutdown returns nil once no request is active;
\* log.Println("server exited") and startServer returns.
ShutdownReturns ==
    /\ pc = "ShutdownWait"
    /\ active = 0
    /\ logged' = logged \cup {"exited"}
    /\ server' = IF server = "closing" THEN "closed" ELSE server
    /\ pc' = "exited"
    /\ UNCHANGED <<registry, orm, routes, quit, notified, last, err, addr,
                   ctx, active, store>>

\* mutant: the error of srv.Shutdown is printed and startServer goes on
ShutdownTimesOutPrintln ==
    /\ pc = "ShutdownWait"
    /\ active > 0
    /\ logged' = logged \cup {"shutdown", "exited"}
    /\ server' = IF server = "closing" THEN "closed" ELSE server
    /\ pc' = "exited"
    /\ UNCHANGED <<registry, orm, routes, quit, notified, last, err, addr,
                   ctx, active, store>>

\* mutant: srv.Shutdown is given a context without deadline and waits for
\* the active requests however long they take
ShutdownNeverTimesOut ==
    /\ pc = "ShutdownWait"
    /\ active > 0
    /\ FALSE
    /\ UNCHANGED vars

\* The context expires while requests are active: srv.Shutdown returns its
\* error and log.Fatal("server shutdown:", err) ends the process.
ShutdownTimesOut ==
    /\ pc = "ShutdownWait"
    /\ active > 0
    /\ logged' = logged \cup {"shutdown"}
    /\ server' = IF server = "closing" THEN "closed" ELSE server
    /\ pc' = "fatal"
    /\ UNCHANGED <<registry, orm, routes, quit, notified, last, err, addr,
                   ctx, active, store>>

----------------------------------------------------------------------------
(* Requests: accepted while the server is listening, answered later.       *)

\* The listener accepts a connection and a request starts.
Accept ==
    /\ server = "listening"
    /\ ~Ended
    /\ active < MaxActive
    /\ active' = active + 1
    /\ UNCHANGED <<pc, registry, orm, routes, server, quit, notified, last,
                   err, addr, ctx, logged, store>>

\* GET /admin/info/{name}?__page=..&__pageSize=..: the generator registered
\* under name is looked up and called, and the list view's data is fetched.
\* The page and the page size vary for the external table, whose data
\* function receives them; the other tables are asked for their first page.
ServeInfo ==
    /\ Serving
    /\ \E name \in RequestNames :
       \E page \in (IF name = ExternalKey THEN Pages ELSE {1}),
          pageSize \in (IF name = ExternalKey THEN PageSizes ELSE {1}) :
          LET r     == Resolve(registry, name)
              param == [page |-> page, pageSize |-> pageSize, authorId |-> 0]
          IN  last' = IF r.found
                      THEN Response("info", name, r, param,
                                    GetData(Build(r.generator).info.getData,
                                            param),
                                    NoRow, NoShown)
                      ELSE Response("notFound", name, r, param, NoData,
                                    NoRow, NoShown)
    /\ active' = active - 1
    /\ UNCHANGED <<pc, registry, orm, routes, server, quit, notified, err,
                   addr, ctx, logged, store>>

\* GET /admin/info/{name}/detail: the detail view's data is fetched.
ServeDetail ==
    /\ Serving
    /\ \E name \in RequestNames :
          LET r == Resolve(registry, name)
          IN  last' = IF r.found
                      THEN Response("detail", name, r, NoParam,
                                    GetData(Build(r.generator).detail.getData,
                                            NoParam),
                                    NoRow, NoShown)
                      ELSE Response("notFound", name, r, NoParam, NoData,
                                    NoRow, NoShown)
    /\ active' = active - 1
    /\ UNCHANGED <<pc, registry, orm, routes, server, quit, notified, err,
                   addr, ctx, logged, store>>

\* One row of the posts list: the joined columns are resolved into the row
\* and the name column is rendered by its display function.
ServePostsRow ==
    /\ Serving
    /\ \E authorId \in AuthorIds, rep \in NullReps :
          LET r     == Resolve(registry, "posts")
              param == [page |-> 1, pageSize |-> 1, authorId |-> authorId]
              row   == PostRow(Build(r.generator).info.fields, authorId, rep)
          IN  /\ r.found
              /\ last' = Response("postsRow", "posts", r, param, NoData, row,
                                  AuthorNameDisplay(row))
    /\ active' = active - 1
    /\ UNCHANGED <<pc, registry, orm, routes, server, quit, notified, err,
                   addr, ctx, logged, store>>

\* One row of the authors list, its name column rendered.
ServeAuthorsRow ==
    /\ Serving
    /\ \E authorId \in AuthorIds, rep \in NullReps :
          LET r     == Resolve(registry, "authors")
              param == [page |-> 1, pageSize |-> 1, authorId |-> authorId]
              row   == AuthorRow(authorId, rep)
          IN  /\ r.found
              /\ last' = Response("authorsRow", "authors", r, param, NoData,
                                  row, FullNameDisplay(row))
    /\ active' = active - 1
    /\ UNCHANGED <<pc, registry, orm, routes, server, quit, notified, err,
                   addr, ctx, logged, store>>

\* POST of the users form, new or edit: every field passes its post filter
\* and the values that remain are saved.
SubmitUsersForm ==
    /\ Serving
    /\ \E i \in 1..MaxUsers, name \in SubmittedNames,
          role \in SubmittedRoles :
          LET r   == Resolve(registry, "users")
              old == IF i <= Len(store) THEN store[i] ELSE BlankRow
              new == SubmittedRow(Build(r.generator), old, name, role)
          IN  /\ r.found
              /\ i <= Len(store) + 1
              /\ store' = IF i <= Len(store) THEN [store EXCEPT ![i] = new]
                                             ELSE Append(store, new)
              /\ last' = Response(IF i <= Len(store) THEN "usersEdit"
                                                     ELSE "usersNew",
                                  "users", r,
                                  [page |-> 0, pageSize |-> 0,
                                   authorId |-> i],
                                  NoData, NoRow,
                                  [value |-> role, panic |-> FALSE])
    /\ active' = active - 1
    /\ UNCHANGED <<pc, registry, orm, routes, server, quit, notified, err,
                   addr, ctx, logged>>

\* POST /choose/country, sent when a country is chosen in the users form:
\* the callback the users table registered answers with the cities.
ServeChooseCountry ==
    /\ Serving
    /\ \E country \in CountryValues :
          LET r   == Resolve(registry, "users")
              res == ChooseCountry(country)
          IN  /\ r.found
              /\ \E i \in 1..Len(Build(r.generator).actions) :
                     Build(r.generator).actions[i].id = "/choose/country"
              /\ last' = [Response("chooseCountry", "users", r, NoParam,
                                   NoData, NoRow,
                                   [value |-> res.msg, panic |-> FALSE])
                          EXCEPT !.rows = res.data, !.value = country,
                                 !.success = res.success]
    /\ active' = active - 1
    /\ UNCHANGED <<pc, registry, orm, routes, server, quit, notified, err,
                   addr, ctx, logged, store>>

\* GET /admin: DashboardPage calls models.FirstStatics(), which calls
\* orm.First, and fills the info boxes from the template methods. A nil orm
\* makes the call panic.
ServeDashboard ==
    /\ Serving
    /\ \E table \in StatTables, failed \in BOOLEAN :
          LET r == ResolvePage(routes, "/admin")
              s == FirstStatics(table, failed)
          IN  /\ r.found
              /\ r.generator = "DashboardPage"
              /\ last' = IF orm = "unset"
                         THEN Response("dashboard", "/admin", r, NoParam,
                                       NoData, NoRow,
                                       [value |-> "", panic |-> TRUE])
                         ELSE [Response("dashboard", "/admin", r,
                                        [page |-> 0, pageSize |-> 0,
                                         authorId |-> Len(table)],
                                        NoData, NoRow,
                                        [value |-> IF failed THEN "failed"
                                                   ELSE "",
                                         panic |-> FALSE])
                               EXCEPT !.stats = s, !.boxes = InfoBoxes(s),
                                      !.rows = table,
                                      !.content = DashboardContent]
    /\ active' = active - 1
    /\ UNCHANGED <<pc, registry, orm, routes, server, quit, notified, err,
                   addr, ctx, logged, store>>

\* GET of another page: the handler registered for the path is run.
ServePage ==
    /\ Serving
    /\ \E path \in RequestPaths \ {"/admin"} :
          LET r == ResolvePage(routes, path)
          IN  last' = Response(IF r.found THEN "page" ELSE "noPage", path,
                               r, NoParam, NoData, NoRow, NoShown)
    /\ active' = active - 1
    /\ UNCHANGED <<pc, registry, orm, routes, server, quit, notified, err,
                   addr, ctx, logged, store>>

\* TestExampleUserAcceptance: the function handed to the test suite starts
\* startServer in a goroutine, receives from the quit channel of the suite
\* and logs; the channel is not the one startServer waits on.
TestQuit ==
    /\ "test quit" \notin logged
    /\ logged' = logged \cup {"test quit"}
    /\ UNCHANGED <<pc, registry, orm, routes, server, quit, notified, last,
                   err, addr, ctx, active, store>>

\* startServer as main calls it.
StartServer ==
    \/ AddConfigFromYAML
    \/ AddGenerators
    \/ AddGenerator
    \/ Use
    \/ ModelsInit
    \/ Routes
    \/ SpawnServer
    \/ ListenAndServe
    \/ Notify
    \/ Interrupt
    \/ WaitQuit
    \/ ListenReturns
    \/ Shutdown
    \/ ShutdownReturns
    \/ ShutdownTimesOut
    \/ Accept
    \/ SubmitUsersForm
    \/ ServeChooseCountry
    \/ ServeDashboard
    \/ ServePage
    \/ ServeInfo
    \/ ServeDetail
    \/ ServePostsRow
    \/ ServeAuthorsRow

\* startServer as main or as the acceptance test calls it.
Next ==
    \/ StartServer
    \/ TestQuit

Spec == Init /\ [][Next]_vars

\* The program run from main, its main goroutine scheduled: a receive on a channel that holds a
\* signal proceeds, the statements after it run, and srv.Shutdown returns
\* when no request is active or when its context expires. Nothing makes a
\* request end.
FairSpec ==
    /\ Init /\ [][StartServer]_vars
    /\ WF_vars(WaitQuit)
    /\ WF_vars(Shutdown)
    /\ WF_vars(ShutdownReturns \/ ShutdownTimesOut)

----------------------------------------------------------------------------
(* Properties.                                                             *)

RegisteredNames == {"posts", "users", "authors", "profile", "external"}

\* The main goroutine is past the registration calls of startServer.
Registered == pc \notin {"AddConfigFromYAML", "AddGenerators", "AddGenerator"}

\* The server goroutine exists: srv.ListenAndServe has been started.
ServerStarted == server /= "none"

NoDuplicates(names) ==
    \A i, j \in 1..Len(names) : i /= j => names[i] /= names[j]

\* The field names the columns added with AddField declare, in order.
ColumnNames(fields) ==
    LET named == SelectSeq(fields, LAMBDA c : c.kind = "field")
    IN  [i \in 1..Len(named) |-> named[i].field]

FormNames(fields) == [i \in 1..Len(fields) |-> fields[i].field]

\* C1: every registration into the generator registry is complete when the
\* server goroutine is started, and no step taken once it has been started
\* writes the registry.
C1_RegistryWrittenBeforeServing ==
    [][ /\ ServerStarted' => DOMAIN registry' = RegisteredNames
        /\ ServerStarted => registry' = registry ]_vars

\* C1 witness: the listening server has answered a request from the registry.
C1_Witness ==
    server = "listening" /\ last.kind = "info" /\ last.found

\* The kinds of response that answer a request for a table by its name.
TableKinds ==
    {"info", "detail", "notFound", "postsRow", "authorsRow", "usersEdit",
     "usersNew"}

C5_PrimaryKeyIsOneColumn ==
    \A n \in DOMAIN registry :
        LET t == Build(registry[n])
        IN  /\ t.primaryKey.Name /= ""
            /\ Cardinality({i \in 1..Len(t.info.fields) :
                               t.info.fields[i].field = t.primaryKey.Name}) = 1

\* C5 witness: the profile table has been built for a request.
C5_Witness ==
    last.kind = "info" /\ last.found /\ last.name = "profile"

\* C6: in the table every registered generator builds, the list columns
\* have pairwise different field names and so have the form fields.
C6_FieldNamesAreUnique ==
    \A n \in DOMAIN registry :
        LET t == Build(registry[n])
        IN  /\ NoDuplicates(ColumnNames(t.info.fields))
            /\ NoDuplicates(FormNames(t.form.fields))

\* C6 witness: the posts table has been built for a request.
C6_Witness ==
    last.kind = "info" /\ last.found /\ last.name = "posts"

\* ceil(total / size)
PageCountCeil(total, size) == (total + size - 1) \div size

\* The number of rows the source returns over pages 1..n of the given size.
RECURSIVE RowsOverPages(_, _, _)
RowsOverPages(source, size, n) ==
    IF n = 0 THEN 0
    ELSE Len(GetData(source, [page |-> n, pageSize |-> size,
                              authorId |-> 0]).rows)
         + RowsOverPages(source, size, n - 1)

\* C7: for every page request to the external list, the total count is the
\* number of rows of all pages together, and no page holds more rows than
\* the page size.
C7_TotalIsRowsOfAllPages ==
    (last.kind = "info" /\ last.found /\ last.name = "external") =>
        /\ Len(last.rows) <= last.pageSize
        /\ RowsOverPages(Build(last.generator).info.getData, last.pageSize,
                         PageCountCeil(last.total, last.pageSize))
           = last.total

\* C9 as stated: the joined values are in the row under
\* {table}_joined_{field}, the keys the display function reads.
C9_KeysAreTableJoinedField ==
    (last.kind = "postsRow" /\ last.authorId \in DOMAIN Authors) =>
        LET fields == Build(last.generator).info.fields
            keys   == {fields[i].join.Table \o "_joined_" \o fields[i].field :
                          i \in JoinedColumns(fields)}
        IN  /\ keys \subseteq DOMAIN last.row
            /\ keys = {FirstNameKey, LastNameKey}

\* C9: the posts columns joined with {author_id, id, authors} are in the
\* row under {table}_goadmin_join_{field}; these are the keys the author
\* name display function reads, so the name of a post with an author is
\* shown as "first last".
C9_KeysAreTableGoadminJoinField ==
    last.kind = "postsRow" =>
        LET fields == Build(last.generator).info.fields
            keys   == {JoinKey(fields[i].join.Table, fields[i].field) :
                          i \in JoinedColumns(fields)}
        IN  /\ \A i \in JoinedColumns(fields) : fields[i].join = AuthorsJoin
            /\ keys = {FirstNameKey, LastNameKey}
            /\ last.authorId \in DOMAIN Authors =>
                  /\ keys \subseteq DOMAIN last.row
                  /\ last.display =
                        Authors[last.authorId].first_name \o " " \o
                        Authors[last.authorId].last_name

\* C9 witness: a post with an existing author has been rendered.
C9_Witness ==
    /\ last.kind = "postsRow"
    /\ last.authorId = 1
    /\ last.display = "Ann Lee"

\* The joined keys of the row are absent or hold no string.
NoJoinedStrings(row) ==
    \A k \in {FirstNameKey, LastNameKey} :
        k \notin DOMAIN row \/ row[k].t /= "string"

C11_JoinedColumnsCompleteAndReadOnly ==
    \A n \in DOMAIN registry :
        LET fields == Build(registry[n]).info.fields
        IN  \A i \in 1..Len(fields) :
                (fields[i].join /= NoJoin) =>
                    /\ fields[i].join.Field /= ""
                    /\ fields[i].join.Table /= ""
                    /\ fields[i].join.JoinField /= ""
                    /\ ~fields[i].editable

\* C11 witness: the posts table, which has joined columns, has been built
\* for a request.
C11_Witness ==
    /\ last.kind = "info" /\ last.found /\ last.name = "posts"
    /\ JoinedColumns(Build(last.generator).info.fields) /= {}


\* C12: the post filter of the role field of the users form returns the
\* empty string, which is not saved: whatever role a submission carries, a
\* row that is edited keeps the role it had and a row that is added gets
\* none.
C12_RoleIsNeverWritten ==
    [][ \A i \in 1..Len(store') :
            IF i <= Len(store) THEN store'[i].role = store[i].role
                               ELSE store'[i].role = "" ]_vars

\* C12 witness: an edit carrying another role has been saved: the name of
\* the row is the submitted one, the role is the old one.
C12_Witness ==
    /\ last.kind = "usersEdit"
    /\ last.display = "guest"
    /\ store[last.authorId].name = "bo"
    /\ store[last.authorId].role = "admin"

\* A step that answers a request.
Answered == active' = active - 1

\* Two responses answer the same request for a table.
SameRequest(a, b) ==
    /\ a.kind = b.kind /\ a.name = b.name /\ a.page = b.page
    /\ a.pageSize = b.pageSize /\ a.authorId = b.authorId

IsCallback(a) == a.kind \in CallbackKinds

\* The callback-bearing actions of the users table, the authors table and
\* the table page, as the registry's generators and GetTableContent
\* declare them.
CallbackActions ==
    SelectSeq(Build(registry["users"]).actions
                  \o Build(registry["authors"]).actions
                  \o TablePageActions,
              IsCallback)

\* C14: once the users and authors generators are registered, no two of
\* the callback-bearing actions of the two tables and the table page have
\* the same id, and each of them has a handler.
C14_CallbackIdsAreDistinct ==
    ({"users", "authors"} \subseteq DOMAIN registry) =>
        /\ \A i, j \in 1..Len(CallbackActions) :
               i /= j => CallbackActions[i].id /= CallbackActions[j].id
        /\ \A i \in 1..Len(CallbackActions) :
               CallbackActions[i].handler /= ""

\* C14 witness: the users list has been answered with its seven
\* callback-bearing actions, and the table page with its button.
C14_Witness ==
    /\ last.kind = "info" /\ last.name = "users"
    /\ Len(SelectSeq(last.actions, IsCallback)) = 7
    /\ Len(CallbackActions) = 9

\* C15: an error of the startup chain or of models.Init ends startServer
\* in a panic: the server goroutine does not exist, no request was
\* accepted and none was answered.
C15_StartupErrorsAreFatal ==
    (err /= "nil") =>
        /\ pc = "panicked"
        /\ server = "none"
        /\ addr = 0
        /\ active = 0
        /\ last = NoResponse

\* C15 witness: models.Init failed after the chain succeeded, and
\* startServer panicked with all five generators registered and no route.
C15_Witness ==
    /\ err = "orm"
    /\ pc = "panicked"
    /\ DOMAIN registry = RegisteredNames
    /\ routes = {}

\* C16: whenever the server goroutine exists, models.Init has set orm,
\* and no answer of DashboardPage came from a call of FirstStatics on an
\* unset orm.
C16_OrmIsSetBeforeServing ==
    /\ ServerStarted => orm = "open"
    /\ (last.kind = "dashboard") => (orm = "open" /\ ~last.panic)

\* C16 witness: DashboardPage has been answered from a record FirstStatics
\* read through the orm.
C16_Witness ==
    /\ last.kind = "dashboard"
    /\ orm = "open"
    /\ last.rows /= << >>
    /\ last.stats = last.rows[1]
    /\ ~last.panic

\* C17: what DashboardPage got from FirstStatics is a Statistics value in
\* every case: the zero value, with ID = 0, when the table has no record or
\* the query failed, and the first record of the table otherwise.
C17_FirstStaticsZeroOrFirstRecord ==
    (last.kind = "dashboard" /\ ~last.panic) =>
        IF last.display = "failed" \/ last.rows = << >>
        THEN /\ last.stats = ZeroStatistics
             /\ last.stats.ID = 0
        ELSE last.stats = last.rows[1]

\* C17 witness: the query failed on a table of two records and the zero
\* value came back.
C17_Witness ==
    /\ last.kind = "dashboard"
    /\ last.display = "failed"
    /\ Len(last.rows) = 2
    /\ last.stats = ZeroStatistics

\* C17, the other case: of a table of two records the first was returned.
C17_FirstOfTwo ==
    /\ last.kind = "dashboard"
    /\ last.display = ""
    /\ Len(last.rows) = 2
    /\ last.stats = last.rows[1]
    /\ last.stats /= last.rows[2]

\* C18: each of the four numbers DashboardPage shows is the decimal
\* representation of the unsigned value of its field.
C18_TmplIsDecimalOfValue ==
    (last.kind = "dashboard" /\ ~last.panic) =>
        /\ last.boxes.cpu = Digits(last.stats.CPU)
        /\ last.boxes.likes = Digits(last.stats.Likes)
        /\ last.boxes.sales = Digits(last.stats.Sales)
        /\ last.boxes.newMembers = Digits(last.stats.NewMembers)

\* The handler each page of the admin panel is to have.
PageHandlers ==
    { <<"/admin", "DashboardPage">>, <<"/admin/form", "GetFormContent">>,
      <<"/admin/table", "GetTableContent">>, <<"/admin/hello", "hello.tmpl">> }

\* C19: a listening server has port 9033; from the moment the server
\* goroutine exists each of the four pages has exactly one GET route, to
\* its handler; and a page that was answered was answered by that handler.
C19_PagesAreRoutedBeforeListening ==
    /\ (server = "listening") => addr = 9033
    /\ ServerStarted =>
           \A p \in PageHandlers :
               {r \in routes : r.method = "GET" /\ r.path = p[1]}
                   = {Route("GET", p[1], p[2])}
    /\ (last.kind \in {"page", "dashboard"}) =>
           <<last.name, last.generator>> \in PageHandlers

\* C19 witness: the server listens on its port and GET /admin/table has
\* been answered by GetTableContent.
C19_Witness ==
    /\ server = "listening"
    /\ addr = 9033
    /\ last.kind = "page"
    /\ last.name = "/admin/table"
    /\ last.generator = "GetTableContent"

\* srv.Shutdown has been called.
ShutdownCalled == pc \in {"ShutdownWait", "exited", "fatal"}

\* C20: srv.Shutdown is called only after the interrupt was taken from
\* the channel, with a context of 5 seconds; from the call on no request
\* is accepted; the message of a clean exit is logged only when Shutdown
\* returned nil, with no request active any more; and when the context
\* expires first, the process ends in log.Fatal without that message.
C20_GracefulShutdown ==
    /\ [](ShutdownCalled => (ctx = 5 /\ server /= "listening"))
    /\ []((~ShutdownCalled) =>
              (ctx = 0 /\ logged \subseteq {"listen", "test quit"}))
    /\ []("exited" \in logged =>
              (pc = "exited" /\ active = 0 /\ "shutdown" \notin logged))
    /\ [](pc = "fatal" =>
              (active > 0 /\ "shutdown" \in logged /\ "exited" \notin logged))
    /\ [][ (ShutdownCalled' /\ ~ShutdownCalled) =>
               (pc = "Shutdown" /\ notified) ]_vars
    /\ [][ (pc' = "Shutdown" /\ pc /= "Shutdown") =>
               (pc = "WaitQuit" /\ quit = 1 /\ quit' = 0) ]_vars
    /\ [][ ShutdownCalled => active' <= active ]_vars

\* C20 witness: Shutdown has been called with its context while a request
\* is active, and the server accepts no more.
C20_Witness ==
    /\ pc = "ShutdownWait"
    /\ ctx = 5
    /\ active > 0
    /\ server = "closing"

\* C20, clean exit reached: the active request of the witness was answered
\* and the message logged.
C20_Exited ==
    /\ pc = "exited" /\ "exited" \in logged /\ active = 0
    /\ last.kind /= "none"

\* C20, timeout reached: log.Fatal with a request still active.
C20_Fatal ==
    /\ pc = "fatal" /\ "shutdown" \in logged /\ active > 0

\* C21: a signal in the quit channel stays there until the main goroutine
\* receives it; once it is there srv.Shutdown is eventually called, and
\* once srv.Shutdown is called the process eventually ends, in the clean
\* exit or in log.Fatal, whether or not the active requests ever end.
C21_InterruptLeadsToTermination ==
    /\ [][ (quit = 1 /\ quit' = 0) => (pc = "WaitQuit" /\ pc' = "Shutdown")
       ]_vars
    /\ (notified /\ quit = 1) ~> ShutdownCalled
    /\ ShutdownCalled ~> (pc \in {"exited", "fatal"})

\* C21 witness: the interrupt arrived after signal.Notify and before the
\* main goroutine received from quit, while a request was active.
C21_Witness ==
    /\ notified
    /\ pc = "WaitQuit"
    /\ quit = 1
    /\ active > 0

\* C22: the main goroutine leaves its receive on quit only by taking a
\* signal from the channel, a signal enters the channel only after
\* signal.Notify, and srv.Shutdown is called only from there; a failure of
\* ListenAndServe is logged and changes neither the position of the main
\* goroutine nor the channel, and the process goes on; the quit of the
\* acceptance test is logged and changes nothing of startServer.
C22_OnlyAnInterruptEndsStartServer ==
    /\ [][ (pc = "WaitQuit" /\ pc' /= pc) =>
               (quit = 1 /\ quit' = 0 /\ pc' = "Shutdown") ]_vars
    /\ [][ (quit' > quit) => (notified /\ pc' = pc) ]_vars
    /\ [][ (ShutdownCalled' /\ ~ShutdownCalled) => pc = "Shutdown" ]_vars
    /\ [][ (server' = "failed" /\ server /= "failed") =>
               /\ "listen" \in logged'
               /\ UNCHANGED <<pc, quit, notified, ctx>>
               /\ ~Ended' ]_vars
    /\ [][ ("test quit" \in logged' /\ "test quit" \notin logged) =>
               UNCHANGED <<pc, server, quit, notified, ctx, active, last,
                           registry, routes, orm, store>> ]_vars
    /\ []((server = "failed" /\ pc = "WaitQuit" /\ quit = 0) =>
              ~ENABLED (WaitQuit \/ Shutdown \/ ShutdownReturns
                            \/ ShutdownTimesOut))

\* C22 witness: ListenAndServe failed and was logged, the test has quit,
\* and the main goroutine is still at its receive on an empty channel.
C22_Witness ==
    /\ server = "failed"
    /\ "listen" \in logged
    /\ "test quit" \in logged
    /\ pc = "WaitQuit"
    /\ quit = 0

\* The blocks of a row, as a set.
Blocks(row) == {row[i] : i \in 1..Len(row)}

\* C23: the content of DashboardPage is four rows: the four info boxes,
\* then the orders table with the product list, then the line chart with
\* the progress bars, then the pie chart with the tabs and the popup.
C23_ContentIsTheFourDocumentedRows ==
    (last.kind = "dashboard" /\ ~last.panic) =>
        /\ Len(last.content) = 4
        /\ Blocks(last.content[1]) = Blocks(InfoBoxRow)
        /\ {"orders table", "product list"} \subseteq Blocks(last.content[2])
        /\ {"line chart", "progress groups"} \subseteq Blocks(last.content[3])
        /\ {"pie chart", "tabs", "popup"} \subseteq Blocks(last.content[4])

\* The names a form's tab groups list, one after the other.
RECURSIVE Concat(_)
Concat(groups) ==
    IF groups = << >> THEN << >> ELSE Head(groups) \o Concat(Tail(groups))

\* The tab groups of a form partition its fields.
TabsPartition(form) ==
    LET listed == Concat(form.tabGroups)
    IN  /\ NoDuplicates(listed)
        /\ NoDuplicates(FormNames(form.fields))
        /\ {listed[i] : i \in 1..Len(listed)}
               = {form.fields[i].field : i \in 1..Len(form.fields)}
        /\ Len(form.tabHeaders) = Len(form.tabGroups)

\* C24: in the users form, once its generator is registered, and in the
\* form of the form page, every field is listed in exactly one tab group,
\* every name listed is a field, and there are as many tab headers as tab
\* groups.
C24_TabGroupsPartitionTheFields ==
    /\ ("users" \in DOMAIN registry) =>
           TabsPartition(Build(registry["users"]).form)
    /\ TabsPartition(FormPagePanel)

\* C24 witness: the users form was submitted and the form page was
\* registered, with two and three tab groups over ten and twenty-eight
\* fields.
C24_Witness ==
    /\ last.kind = "usersEdit"
    /\ Len(last.table.form.tabGroups) = 2
    /\ Len(last.table.form.fields) = 10
    /\ ResolvePage(routes, "/admin/form").generator = "GetFormContent"
    /\ Len(FormPagePanel.tabGroups) = 3
    /\ Len(FormPagePanel.fields) = 28

\* The default of every field of a form that has options and a default is
\* the value of one of its options.
DefaultsAreOptions(form) ==
    \A i \in 1..Len(form.fields) :
        LET f == form.fields[i]
        IN  (f.options /= << >> /\ f.hasDefault) =>
                \E k \in 1..Len(f.options) : f.options[k] = f.default

\* C25: in the users form, when it was submitted, and in the form of the
\* form page, when GetFormContent answered it, a field with options and a
\* default has one of its options as default.
C25_DefaultsAreOptions ==
    /\ (last.kind \in {"usersEdit", "usersNew"}) =>
           DefaultsAreOptions(last.table.form)
    /\ (last.kind = "page" /\ last.generator = "GetFormContent") =>
           DefaultsAreOptions(FormPagePanel)

\* The users form alone satisfies it, and so does drink on the form page.
C25_AllButExperience ==
    /\ ("users" \in DOMAIN registry) =>
           DefaultsAreOptions(Build(registry["users"]).form)
    /\ DefaultsAreOptions(
           [FormPagePanel EXCEPT
               !.fields = SelectSeq(FormPagePanel.fields,
                                    LAMBDA f : f.field /= "experience")])

\* The ids of a list of options.
OptionIds(data) == [i \in 1..Len(data) |-> data[i].ID]

\* C26: every answer of the country callback is success with message
\* "ok"; "0", "1", "2" and "3" get lists of 4, 4, 4 and 2 cities, each
\* another list, every other value gets the list of "0"; no list is empty
\* and the ids within a list are pairwise distinct.
C26_CountryCallbackAnswers ==
    (last.kind = "chooseCountry") =>
        /\ last.success
        /\ last.display = "ok"
        /\ Len(last.rows) = (CASE last.value = "3" -> 2 [] OTHER -> 4)
        /\ (last.value \notin {"1", "2", "3"}) =>
               OptionIds(last.rows)
                   = << "beijing", "shangHai", "guangZhou", "shenZhen" >>
        /\ (last.value \in {"1", "2", "3"}) =>
               /\ OptionIds(last.rows)[1]
                      = (CASE last.value = "1" -> "los angeles"
                           [] last.value = "2" -> "london"
                           [] last.value = "3" -> "vancouver")
               /\ last.rows /= ChooseCountry("0").data
               /\ \A v \in {"1", "2", "3"} \ {last.value} :
                      last.rows /= ChooseCountry(v).data
        /\ last.rows /= << >>
        /\ NoDuplicates(OptionIds(last.rows))

\* C26 witness: the callback was called with the empty string and answered
\* with the four cities of "0".
C26_Witness ==
    /\ last.kind = "chooseCountry"
    /\ last.value = ""
    /\ last.success
    /\ Len(last.rows) = 4
    /\ last.rows = ChinaCities

\* The paths a table embeds: the pages of its iframes and the links its
\* display functions render.
EmbeddedPaths(table) ==
    ({table.actions[i].src : i \in 1..Len(table.actions)} \ {<< >>})
        \cup UNION { IF table.info.fields[i].display = "authorLink"
                     THEN {AuthorLink(Itoa(id)).path : id \in AuthorIds}
                     ELSE {} : i \in 1..Len(table.info.fields) }

\* The table a path of the form /admin/info/{name}[/...] names, "" for
\* any other path.
InternalName(path) ==
    IF Len(path) >= 3 /\ path[1] = "admin" /\ path[2] = "info"
    THEN path[3] ELSE ""

\* C27: after the registration calls, every path /admin/info/{name}[/...]
\* that the table of a registered generator embeds names a registered
\* table.
C27_EmbeddedLinksAreRegistered ==
    Registered =>
        \A n \in DOMAIN registry :
            \A path \in EmbeddedPaths(Build(registry[n])) :
                (InternalName(path) /= "") =>
                    Resolve(registry, InternalName(path)).found

\* C27 witness: the three tables embed the three paths, and the link of
\* the posts list to the detail of an author has been followed.
C27_Witness ==
    /\ Registered
    /\ {InternalName(p) : p \in EmbeddedPaths(Build(registry["posts"]))}
           = {"authors"}
    /\ {InternalName(p) : p \in EmbeddedPaths(Build(registry["authors"]))}
           = {"posts"}
    /\ {InternalName(p) : p \in EmbeddedPaths(Build(registry["users"]))}
           = {"profile"}
    /\ last.kind = "detail"
    /\ last.name = InternalName(AuthorLink("1").path)
    /\ last.found

\* C28: the table every registered generator builds names, in its list
\* view and in its form view, the name the generator is registered under,
\* and so does the detail view of the external table, the one table that
\* configures it; a list or detail that was answered came from a table
\* that names the requested one.
C28_ViewsNameTheRegisteredTable ==
    /\ \A n \in DOMAIN registry :
           LET t == Build(registry[n])
           IN  /\ t.info.table = n
               /\ t.form.table = n
               /\ t.detail.table = (IF n = ExternalKey THEN n ELSE "")
    /\ (last.kind \in {"info", "detail"} /\ last.found) =>
           /\ last.table.info.table = last.name
           /\ last.table.form.table = last.name
           /\ last.kind = "detail" /\ last.name = ExternalKey =>
                  last.table.detail.table = last.name

\* C28 witness: all five generators are registered and the detail of the
\* external table has been answered.
C28_Witness ==
    /\ DOMAIN registry = RegisteredNames
    /\ last.kind = "detail"
    /\ last.name = "external"
    /\ last.found
    /\ last.table.detail.table = "external"

====
